---- MODULE Spec2Model ----
(***************************************************************************)
(* The ruler of kausalco/cortex (pkg/ruler/ruler.go): the rule server, its *)
(* pool of workers, the evaluation of one work item and the per-tenant     *)
(* notifiers.  The scheduler (pkg/ruler/scheduler.go) is modelled from its *)
(* contract: nextWorkItem, workItemDone, the poll loop and Stop.           *)
(***************************************************************************)
EXTENDS Integers, Sequences, FiniteSets, TLC

\* ------------------------------------------------------------- bounds
MaxWorkers == 2
MaxTime == 1
MaxPolls == 3
MaxEvals == 2
MaxAlerts == 3

Tenants == {"A", "B"}

\* cfg.EvaluationInterval, in ticks of the model's clock
EvaluationInterval == 1

VARIABLES
  numWorkers,   \* cfg.NumWorkers
  shutdown,     \* the order the process shuts down in: "serverFirst", "rulerFirst"
  srvPc,        \* the server: "new", "none" (NewServer failed), "start", "loop", "done"
  runIdx,       \* the worker the range variable w of Server.run holds (0: none yet)
  wpc,          \* position of each worker goroutine in worker.Run
  wterm,        \* the terminated channel the goroutine's deferred close is bound to
  witem,        \* the work item the goroutine holds
  wn,           \* the notifier the goroutine's evaluation obtained
  outcome,      \* how the goroutine's Evaluate call returned
  doneClosed,   \* the workers whose done channel is closed
  termClosed,   \* the workers whose terminated channel is closed
  crashed,      \* the process panicked (close of a closed channel)
  stopPc,       \* Server.Stop: "idle", "wait", "sched", "returned"
  stopIdx,      \* the worker Server.Stop is stopping
  catalog,      \* scheduler: the tenants that have rules
  ready,        \* scheduler: the work items waiting in the queue
  now,          \* the clock
  schedStop,    \* scheduler: Stop was called
  pollPc,       \* scheduler.Run: "notStarted", "running", "stopped"
  polls,        \* catalog changes seen so far
  pulls,        \* items handed out by nextWorkItem so far
  releases,     \* workItemDone calls so far
  pending,      \* the items due when Server.Stop was called and not pulled or purged since
  mtx,          \* Ruler.notifiersMtx: 0 free, g held by worker g, -1 held by Ruler.Stop
  nmap,         \* Ruler.notifiers: tenant -> notifier (0: no entry)
  nobj,         \* every rulerNotifier constructed so far
  sent,         \* the requests the notifiers' Do function sent
  rsPc,         \* Ruler.Stop: "idle", "wait", "done"
  rsTodo,       \* Ruler.Stop: the entries of the range still to visit
  rsCur,        \* Ruler.Stop: the entry being stopped
  ctxDone,      \* the evaluation scopes (contexts) whose deadline passed
  amURL,        \* cfg.AlertmanagerURL: NilURL or a URL with its Host
  amDiscovery,  \* cfg.AlertmanagerDiscovery
  notifierCfg,  \* what buildNotifierConfig returned to NewRuler
  rulerPc,      \* NewRuler: "new", "constructed", "error"
  alertsIn,     \* sendAlerts: the alerts passed to the NotifyFunc
  alertsOut,    \* sendAlerts: the alerts handed to Notifier.Send
  notifyPc      \* sendAlerts: "idle", "sent" (Send was called), "notSent"

vars == <<numWorkers, shutdown, srvPc, runIdx, wpc, wterm, witem, wn, outcome, doneClosed,
          termClosed, crashed, stopPc, stopIdx, catalog, ready, now, schedStop,
          pollPc, polls, pulls, releases, pending, mtx, nmap, nobj, sent, rsPc,
          rsTodo, rsCur, alertsIn, alertsOut, notifyPc, ctxDone, amURL,
          amDiscovery, notifierCfg, rulerPc>>

serverVars == <<numWorkers, shutdown, srvPc, runIdx, stopPc, stopIdx>>
workerVars == <<wpc, wterm, witem, wn, outcome, doneClosed, termClosed, crashed,
                ctxDone>>
schedVars == <<catalog, ready, now, schedStop, pollPc, polls, pulls, releases, pending>>
rulerVars == <<mtx, nmap, nobj, sent, rsPc, rsTodo, rsCur>>
alertVars == <<alertsIn, alertsOut, notifyPc>>
configVars == <<amURL, amDiscovery, notifierCfg, rulerPc>>

\* ------------------------------------------------------------- data
NoItem == [userID |-> "", scheduled |-> -1]

\* the goroutine slots of the model: one more than the largest pool
Slots == 1..(MaxWorkers + 1)

\* workers := make([]worker, cfg.NumWorkers), one newWorker each
WorkerCountPlusOne == numWorkers + 1
WorkerCount == numWorkers

Workers == 1..WorkerCount

\* the process runs: the server was constructed and has not panicked
Alive == srvPc \notin {"new", "none"} /\ ~crashed

\* a goroutine is inside Ruler.Evaluate
Evaluating(g) == wpc[g] \in {"newGroup", "applyConfig", "eval"}


\* ------------------------------------------------------------- sendAlerts
\* the zero time.Time
ZeroTime == 0

AlertStates == {"inactive", "pending", "firing"}

\* the rules.Alert values of the model
Alerts == [State : AlertStates, Labels : {"x", "y"}, FiredAt : {1},
           ResolvedAt : {ZeroTime, 5}]

\* the alert lists of the model, up to MaxAlerts long
AlertLists == UNION {[1..k -> Alerts] : k \in 0..MaxAlerts}

\* a := &notifier.Alert{...}; if !alert.ResolvedAt.IsZero() { a.EndsAt = alert.ResolvedAt }
NotifierAlert(alert) ==
  [StartsAt |-> alert.FiredAt, Labels |-> alert.Labels,
   EndsAt |-> IF alert.ResolvedAt # ZeroTime THEN alert.ResolvedAt ELSE ZeroTime]

\* if alert.State == rules.StatePending { continue }
SkippedUnlessFiring(alert) == alert.State # "firing"
Skipped(alert) == alert.State = "pending"

\* the loop of sendAlerts: res, built by appending in input order
RECURSIVE FilterAlerts(_)
FilterAlerts(alerts) ==
  IF alerts = <<>> THEN <<>>
  ELSE LET alert == Head(alerts)
           rest == FilterAlerts(Tail(alerts))
       IN IF Skipped(alert) THEN rest ELSE <<NotifierAlert(alert)>> \o rest

\* if len(alerts) > 0 { n.Send(res...) }
SendCalled(alerts) == Len(alerts) > 0

\* ------------------------------------------------------------- buildNotifierConfig
\* host names, as the sequences of their characters
\* "alertmanager.svc"
HostPlain ==
  <<"a", "l", "e", "r", "t", "m", "a", "n", "a", "g", "e", "r", ".", "s",
    "v", "c">>

\* "_http._tcp.alertmanager.svc"
HostSrv ==
  <<"_", "h", "t", "t", "p", ".", "_", "t", "c", "p", ".", "a", "l", "e",
    "r", "t", "m", "a", "n", "a", "g", "e", "r", ".", "s", "v", "c">>

\* "alertmanager_tcp.svc"
HostInfix ==
  <<"a", "l", "e", "r", "t", "m", "a", "n", "a", "g", "e", "r", "_", "t",
    "c", "p", ".", "s", "v", "c">>

\* "_tcp."
HostBare ==
  <<"_", "t", "c", "p", ".">>

\* "_http._tcp"
HostNoDot ==
  <<"_", "h", "t", "t", "p", ".", "_", "t", "c", "p">>

\* "_http._udp.alertmanager.svc"
HostUdp ==
  <<"_", "h", "t", "t", "p", ".", "_", "u", "d", "p", ".", "a", "l", "e",
    "r", "t", "m", "a", "n", "a", "g", "e", "r", ".", "s", "v", "c">>

Hosts == {HostPlain, HostSrv, HostInfix, HostBare, HostNoDot, HostUdp, <<>>}

\* rulerConfig.AlertmanagerURL.URL == nil
NilURL == [set |-> FALSE, Host |-> <<>>]

\* the values of cfg.AlertmanagerURL of the model
URLs == {NilURL} \cup {[set |-> TRUE, Host |-> h] : h \in Hosts}

\* "_tcp."
TcpSegment == <<"_", "t", "c", "p", ".">>

\* strings.Contains(s, substr)
Contains(s, substr) ==
  \E i \in 0..(Len(s) - Len(substr)) : SubSeq(s, i + 1, i + Len(substr)) = substr

NoConfig == [kind |-> "nil", names |-> <<>>]

\* buildNotifierConfig(&cfg): the config and whether an error is returned
BuildNotifierConfig(u, discovery) ==
  IF ~u.set
    THEN [err |-> FALSE, cfg |-> [kind |-> "empty", names |-> <<>>]]
    ELSE IF discovery
      THEN IF ~Contains(u.Host, TcpSegment)
             THEN [err |-> TRUE, cfg |-> NoConfig]
             ELSE [err |-> FALSE, cfg |-> [kind |-> "dnsSRV", names |-> <<u.Host>>]]
      ELSE [err |-> FALSE, cfg |-> [kind |-> "static", names |-> <<u.Host>>]]

\* NewRuler(cfg, d, c): the notifier configuration is built once, here; on an
\* error no Ruler is returned
NewRuler ==
  /\ rulerPc = "new"
  /\ LET r == BuildNotifierConfig(amURL, amDiscovery)
     IN /\ rulerPc' = IF r.err THEN "error" ELSE "constructed"
        /\ notifierCfg' = r.cfg
  /\ UNCHANGED <<amURL, amDiscovery>>
  /\ UNCHANGED <<serverVars, workerVars, schedVars, rulerVars, alertVars>>

\* the Ruler of the running program: NewRuler returned it, for DNS discovery
\* of "_http._tcp.alertmanager.svc"
RulerConstructed ==
  /\ amURL = [set |-> TRUE, Host |-> HostSrv]
  /\ amDiscovery = TRUE
  /\ notifierCfg = BuildNotifierConfig([set |-> TRUE, Host |-> HostSrv], TRUE).cfg
  /\ rulerPc = "constructed"

\* ------------------------------------------------------------- Init
\* a rulerNotifier as newRulerNotifier returns it, go n.run() issued
NewNotifier(u) ==
  [userID |-> u, run |-> "pending", sd |-> "none", dl |-> "none", wg |-> 0,
   cancelled |-> FALSE, stopped |-> FALSE, queue |-> {}]

\* the state in which NewServer is called, for a process that shuts down in
\* the given order
ProgramInit(order) ==
  /\ numWorkers \in -1..MaxWorkers
  /\ shutdown = order
  /\ srvPc = "new"
  /\ ctxDone = {}
  /\ runIdx = 0
  /\ wpc = [g \in Slots |-> "absent"]
  /\ wterm = [g \in Slots |-> 0]
  /\ witem = [g \in Slots |-> NoItem]
  /\ wn = [g \in Slots |-> 0]
  /\ outcome = [g \in Slots |-> "none"]
  /\ doneClosed = {}
  /\ termClosed = {}
  /\ crashed = FALSE
  /\ stopPc = "idle"
  /\ stopIdx = 0
  /\ catalog = {}
  /\ ready = {}
  /\ now = 0
  /\ schedStop = FALSE
  /\ pollPc = "notStarted"
  /\ polls = 0
  /\ pulls = 0
  /\ releases = 0
  /\ pending = {}
  /\ mtx = 0
  /\ nmap = [t \in Tenants |-> 0]
  /\ nobj = <<>>
  /\ sent = {}
  /\ rsPc = "idle"
  /\ rsTodo = {}
  /\ rsCur = 0

\* the process stops its server (workers, then scheduler) and then its ruler
Init ==
  /\ ProgramInit("serverFirst")
  /\ RulerConstructed
  /\ alertsIn = <<>>
  /\ alertsOut = <<>>
  /\ notifyPc = "idle"

\* ------------------------------------------------------------- NewServer
\* a NewServer that does not look at cfg.NumWorkers
NewServerUnchecked ==
  /\ srvPc = "new"
  /\ rulerPc = "constructed"
  /\ srvPc' = "start"
  /\ UNCHANGED <<numWorkers, shutdown, runIdx, stopPc, stopIdx>>
  /\ UNCHANGED <<workerVars, schedVars, rulerVars, alertVars, configVars>>

\* NewServer(cfg, ruler, rulesAPI): if cfg.NumWorkers <= 0 an error and no
\* server are returned; else the workers are made and go srv.run() is issued
NewServer ==
  /\ srvPc = "new"
  /\ rulerPc = "constructed"
  /\ srvPc' = IF numWorkers <= 0 THEN "none" ELSE "start"
  /\ UNCHANGED <<numWorkers, shutdown, runIdx, stopPc, stopIdx>>
  /\ UNCHANGED <<workerVars, schedVars, rulerVars, alertVars, configVars>>

\* ------------------------------------------------------------- Server.run
\* go s.scheduler.Run()
SrvRun ==
  /\ Alive
  /\ srvPc = "start"
  /\ srvPc' = "loop"
  /\ pollPc' = "running"
  /\ UNCHANGED <<numWorkers, shutdown, runIdx, stopPc, stopIdx>>
  /\ UNCHANGED <<catalog, ready, now, schedStop, polls, pulls, releases, pending>>
  /\ UNCHANGED <<workerVars, rulerVars, alertVars, configVars>>

\* for _, w := range s.workers { go w.Run() }: w takes the next worker and a
\* goroutine is started on a pointer to w
RunSpawn ==
  /\ Alive
  /\ srvPc = "loop"
  /\ runIdx < WorkerCount
  /\ runIdx' = runIdx + 1
  /\ wpc' = [wpc EXCEPT ![runIdx + 1] = "spawned"]
  /\ srvPc' = IF runIdx + 1 = WorkerCount THEN "done" ELSE "loop"
  /\ UNCHANGED <<numWorkers, shutdown, stopPc, stopIdx>>
  /\ UNCHANGED <<wterm, witem, wn, outcome, doneClosed, termClosed, crashed, ctxDone>>
  /\ UNCHANGED <<schedVars, rulerVars, alertVars, configVars>>

\* ------------------------------------------------------------- scheduler
\* a rescheduling one interval after the time of the hand-back
DeferFromNow(item) ==
  [userID |-> item.userID, scheduled |-> now + EvaluationInterval]
\* workItem.Defer / workItemDone: the next item of the tenant, one interval after
\* the scheduled time of the item handed back
Defer(item) ==
  [userID |-> item.userID, scheduled |-> item.scheduled + EvaluationInterval]

\* what nextWorkItem may return now: an item whose scheduled time has come, or
\* nil (NoItem) once the scheduler is stopped and the queue is drained
NextWorkItemResults ==
  {i \in ready : i.scheduled <= now /\ pulls < MaxEvals}
    \cup (IF schedStop /\ ready = {} THEN {NoItem} ELSE {})

\* workItemDone(item): the queue after the item is handed back; an item of a
\* tenant that is no longer in the catalog is not reinserted
ReadyAfterDone(item) ==
  IF item.userID \in catalog THEN ready \cup {Defer(item)} ELSE ready

\* the poll loop finds a tenant with rules that the catalog does not hold: the
\* tenant gets a fresh work item, due now
PollAdd(t) ==
  /\ Alive
  /\ pollPc = "running"
  /\ polls < MaxPolls
  /\ t \notin catalog
  /\ catalog' = catalog \cup {t}
  /\ ready' = ready \cup {[userID |-> t, scheduled |-> now]}
  /\ polls' = polls + 1
  /\ UNCHANGED <<now, schedStop, pollPc, pulls, releases, pending>>
  /\ UNCHANGED <<serverVars, workerVars, rulerVars, alertVars, configVars>>

\* the poll loop finds that a tenant of the catalog is gone: its items are
\* purged from the queue; an item of it that is checked out is dropped at its
\* workItemDone
PollRemove(t) ==
  /\ Alive
  /\ pollPc = "running"
  /\ polls < MaxPolls
  /\ t \in catalog
  /\ catalog' = catalog \ {t}
  /\ ready' = {i \in ready : i.userID # t}
  /\ pending' = {i \in pending : i.userID # t}
  /\ polls' = polls + 1
  /\ UNCHANGED <<now, schedStop, pollPc, pulls, releases>>
  /\ UNCHANGED <<serverVars, workerVars, rulerVars, alertVars, configVars>>

\* time passes
Tick ==
  /\ Alive
  /\ now < MaxTime
  /\ now' = now + 1
  /\ UNCHANGED <<catalog, ready, schedStop, pollPc, polls, pulls, releases, pending>>
  /\ UNCHANGED <<serverVars, workerVars, rulerVars, alertVars, configVars>>

\* ------------------------------------------------------------- worker.Run
\* defer close(w.terminated): the channel is read from w when the goroutine starts
WorkerStart(g) ==
  /\ Alive
  /\ wpc[g] = "spawned"
  /\ wterm' = [wterm EXCEPT ![g] = runIdx]
  /\ wpc' = [wpc EXCEPT ![g] = "loop"]
  /\ UNCHANGED <<witem, wn, outcome, doneClosed, termClosed, crashed, ctxDone>>
  /\ UNCHANGED <<serverVars, schedVars, rulerVars, alertVars, configVars>>

\* return from worker.Run: the deferred close(w.terminated) runs; closing a
\* closed channel panics
WorkerExit(g) ==
  /\ wpc' = [wpc EXCEPT ![g] = "terminated"]
  /\ IF wterm[g] \in termClosed
       THEN crashed' = TRUE /\ UNCHANGED termClosed
       ELSE termClosed' = termClosed \cup {wterm[g]} /\ UNCHANGED crashed

\* select { case <-w.done: return; default: }: w.done is read from w now
WorkerCheckDone(g) ==
  /\ Alive
  /\ wpc[g] = "loop"
  /\ IF runIdx \in doneClosed
       THEN WorkerExit(g)
       ELSE /\ wpc' = [wpc EXCEPT ![g] = "pull"]
            /\ UNCHANGED <<termClosed, crashed>>
  /\ UNCHANGED <<wterm, witem, wn, outcome, doneClosed, ctxDone>>
  /\ UNCHANGED <<serverVars, schedVars, rulerVars, alertVars, configVars>>

\* a worker that looks at w.done again once nextWorkItem has returned, and
\* returns with the item in its hand
WorkerPullThenCheckDone(g) ==
  /\ Alive
  /\ wpc[g] = "pull"
  /\ \E r \in NextWorkItemResults :
       IF r = NoItem \/ runIdx \in doneClosed
         THEN /\ WorkerExit(g)
              /\ ready' = ready \ {r}
              /\ UNCHANGED <<witem, pulls, pending>>
         ELSE /\ wpc' = [wpc EXCEPT ![g] = "newGroup"]
              /\ witem' = [witem EXCEPT ![g] = r]
              /\ ready' = ready \ {r}
              /\ pending' = pending \ {r}
              /\ pulls' = pulls + 1
              /\ UNCHANGED <<termClosed, crashed>>
  /\ UNCHANGED <<wterm, wn, outcome, doneClosed, ctxDone>>
  /\ UNCHANGED <<catalog, now, schedStop, pollPc, polls, releases>>
  /\ UNCHANGED <<serverVars, rulerVars, alertVars, configVars>>

\* item := w.scheduler.nextWorkItem(); if item == nil { return }; then
\* ctx := user.InjectOrgID(..., item.userID) and w.ruler.Evaluate(ctx, item.rules)
\* is entered
WorkerPull(g) ==
  /\ Alive
  /\ wpc[g] = "pull"
  /\ \E r \in NextWorkItemResults :
       IF r = NoItem
         THEN /\ WorkerExit(g)
              /\ UNCHANGED <<witem, ready, pulls, pending>>
         ELSE /\ wpc' = [wpc EXCEPT ![g] = "newGroup"]
              /\ witem' = [witem EXCEPT ![g] = r]
              /\ ready' = ready \ {r}
              /\ pending' = pending \ {r}
              /\ pulls' = pulls + 1
              /\ UNCHANGED <<termClosed, crashed>>
  /\ UNCHANGED <<wterm, wn, outcome, doneClosed, ctxDone>>
  /\ UNCHANGED <<catalog, now, schedStop, pollPc, polls, releases>>
  /\ UNCHANGED <<serverVars, rulerVars, alertVars, configVars>>

\* a worker that hands the item back only when the evaluation succeeded
WorkerReleaseOnSuccess(g) ==
  /\ Alive
  /\ wpc[g] = "release"
  /\ IF outcome[g] = "ok"
       THEN ready' = ReadyAfterDone(witem[g]) /\ releases' = releases + 1
       ELSE UNCHANGED <<ready, releases>>
  /\ witem' = [witem EXCEPT ![g] = NoItem]
  /\ wn' = [wn EXCEPT ![g] = 0]
  /\ outcome' = [outcome EXCEPT ![g] = "none"]
  /\ wpc' = [wpc EXCEPT ![g] = "loop"]
  /\ UNCHANGED <<wterm, doneClosed, termClosed, crashed, ctxDone>>
  /\ UNCHANGED <<catalog, now, schedStop, pollPc, polls, pulls, pending>>
  /\ UNCHANGED <<serverVars, rulerVars, alertVars, configVars>>

\* w.scheduler.workItemDone(*item), after Evaluate returned, whatever it did
WorkerRelease(g) ==
  /\ Alive
  /\ wpc[g] = "release"
  /\ ready' = ReadyAfterDone(witem[g])
  /\ releases' = releases + 1
  /\ witem' = [witem EXCEPT ![g] = NoItem]
  /\ wn' = [wn EXCEPT ![g] = 0]
  /\ outcome' = [outcome EXCEPT ![g] = "none"]
  /\ wpc' = [wpc EXCEPT ![g] = "loop"]
  /\ UNCHANGED <<wterm, doneClosed, termClosed, crashed, ctxDone>>
  /\ UNCHANGED <<catalog, now, schedStop, pollPc, polls, pulls, pending>>
  /\ UNCHANGED <<serverVars, rulerVars, alertVars, configVars>>

\* ------------------------------------------------------------- Ruler
\* a lookup that finds whatever entry the map holds, whoever it belongs to
LookupAnyNotifier(u) ==
  IF \E t \in Tenants : nmap[t] # 0
    THEN CHOOSE n \in {nmap[t] : t \in Tenants} : n # 0
    ELSE 0
\* a lookup that never finds the entry
LookupMiss(u) == 0
\* n, ok := r.notifiers[userID]
LookupNotifier(u) == nmap[u]

\* the alert lists an evaluation of the model hands to its NotifyFunc
EvalAlertLists ==
  {<<>>,
   <<[State |-> "pending", Labels |-> "x", FiredAt |-> 1, ResolvedAt |-> ZeroTime]>>,
   <<[State |-> "firing", Labels |-> "x", FiredAt |-> 1, ResolvedAt |-> ZeroTime]>>}

\* Evaluate -> newGroup -> getOrCreateNotifier(userID), userID taken from the
\* context the worker built: lock, look the tenant up; on a miss construct the
\* notifier, go n.run(), and go on to applyConfig with the mutex held
NewGroup(g) ==
  /\ Alive
  /\ wpc[g] = "newGroup"
  /\ mtx = 0
  /\ LET u == witem[g].userID
     IN IF LookupNotifier(u) # 0
          THEN /\ wn' = [wn EXCEPT ![g] = LookupNotifier(u)]
               /\ wpc' = [wpc EXCEPT ![g] = "eval"]
               /\ UNCHANGED <<mtx, nobj>>
          ELSE /\ nobj' = Append(nobj, NewNotifier(u))
               /\ wn' = [wn EXCEPT ![g] = Len(nobj) + 1]
               /\ mtx' = g
               /\ wpc' = [wpc EXCEPT ![g] = "applyConfig"]
  /\ UNCHANGED <<wterm, witem, outcome, doneClosed, termClosed, crashed, ctxDone>>
  /\ UNCHANGED <<nmap, sent, rsPc, rsTodo, rsCur>>
  /\ UNCHANGED <<serverVars, schedVars, alertVars, configVars>>

\* n.applyConfig(r.notifierCfg): on an error getOrCreateNotifier returns it,
\* newGroup fails and Evaluate returns; else r.notifiers[userID] = n. The
\* deferred Unlock runs either way
ApplyConfig(g) ==
  /\ Alive
  /\ wpc[g] = "applyConfig"
  /\ \E ok \in BOOLEAN :
       IF ok
         THEN /\ nmap' = [nmap EXCEPT ![witem[g].userID] = wn[g]]
              /\ wpc' = [wpc EXCEPT ![g] = "eval"]
              /\ UNCHANGED <<wn, outcome>>
         ELSE /\ wn' = [wn EXCEPT ![g] = 0]
              /\ outcome' = [outcome EXCEPT ![g] = "groupErr"]
              /\ wpc' = [wpc EXCEPT ![g] = "release"]
              /\ UNCHANGED nmap
  /\ mtx' = 0
  /\ UNCHANGED <<wterm, witem, doneClosed, termClosed, crashed, ctxDone>>
  /\ UNCHANGED <<nobj, sent, rsPc, rsTodo, rsCur>>
  /\ UNCHANGED <<serverVars, schedVars, alertVars, configVars>>

\* one context for all the evaluations of the process
SharedScope(g) == 0
\* ctx := user.InjectOrgID(context.Background(), item.userID) in worker.Run, then
\* ctx, cancelTimeout := context.WithTimeout(ctx, r.groupTimeout) in Evaluate:
\* the scope of the evaluation goroutine g runs, a child of the background
\* context made for this call
EvalScope(g) == g

\* ctx.Err() != nil in the evaluation of goroutine g
Cancelled(g) == EvalScope(g) \in ctxDone

\* the group timeout of the evaluation of goroutine g passes while g.Eval runs:
\* its context is done
ExpireDeadline(g) ==
  /\ Alive
  /\ wpc[g] = "eval"
  /\ ~Cancelled(g)
  /\ ctxDone' = ctxDone \cup {EvalScope(g)}
  /\ UNCHANGED <<wpc, wterm, witem, wn, outcome, doneClosed, termClosed, crashed>>
  /\ UNCHANGED <<serverVars, schedVars, rulerVars, alertVars, configVars>>

\* g.Eval(ctx, start): the group may call its NotifyFunc, sendAlerts(notifier),
\* which queues the forwarded alerts in the notifier newGroup resolved; then
\* Evaluate looks at ctx.Err() and returns, within its deadline or past it
EvalReturn(g) ==
  /\ Alive
  /\ wpc[g] = "eval"
  /\ \E alerts \in EvalAlertLists :
       /\ nobj' = IF SendCalled(alerts) /\ FilterAlerts(alerts) # <<>>
                    THEN [nobj EXCEPT ![wn[g]].queue = @ \cup {witem[g].userID}]
                    ELSE nobj
       /\ outcome' = [outcome EXCEPT ![g] = IF Cancelled(g) THEN "timeout" ELSE "ok"]
  /\ ctxDone' = ctxDone \ {EvalScope(g)}
  /\ wpc' = [wpc EXCEPT ![g] = "release"]
  /\ UNCHANGED <<wterm, witem, wn, doneClosed, termClosed, crashed>>
  /\ UNCHANGED <<mtx, nmap, sent, rsPc, rsTodo, rsCur>>
  /\ UNCHANGED <<serverVars, schedVars, alertVars, configVars>>

\* ------------------------------------------------------------- rulerNotifier
Notifiers == 1..Len(nobj)

\* rn.run(): rn.wg.Add(2) and the two goroutines, sdManager.Run and notifier.Run
NotifierRun(n) ==
  /\ Alive
  /\ nobj[n].run = "pending"
  /\ nobj' = [nobj EXCEPT ![n].run = "started", ![n].wg = @ + 2,
                          ![n].sd = "running", ![n].dl = "running"]
  /\ UNCHANGED <<mtx, nmap, sent, rsPc, rsTodo, rsCur>>
  /\ UNCHANGED <<serverVars, workerVars, schedVars, alertVars, configVars>>

\* rn.sdManager.Run(rn.sdCtx) returns once sdCtx is cancelled; rn.wg.Done()
SdExit(n) ==
  /\ Alive
  /\ nobj[n].sd = "running"
  /\ nobj[n].cancelled
  /\ nobj' = [nobj EXCEPT ![n].sd = "exited", ![n].wg = @ - 1]
  /\ UNCHANGED <<mtx, nmap, sent, rsPc, rsTodo, rsCur>>
  /\ UNCHANGED <<serverVars, workerVars, schedVars, alertVars, configVars>>

\* rn.notifier.Run(...) returns once the notifier is stopped; rn.wg.Done()
DeliveryExit(n) ==
  /\ Alive
  /\ nobj[n].dl = "running"
  /\ nobj[n].stopped
  /\ nobj' = [nobj EXCEPT ![n].dl = "exited", ![n].wg = @ - 1]
  /\ UNCHANGED <<mtx, nmap, sent, rsPc, rsTodo, rsCur>>
  /\ UNCHANGED <<serverVars, workerVars, schedVars, alertVars, configVars>>

\* the delivery loop sends a queued batch through Options.Do, which injects the
\* userID the notifier was created with into the request
Deliver(n) ==
  /\ Alive
  /\ nobj[n].dl = "running"
  /\ ~nobj[n].stopped
  /\ \E f \in nobj[n].queue :
       /\ nobj' = [nobj EXCEPT ![n].queue = @ \ {f}]
       /\ sent' = sent \cup {[for |-> f, carries |-> nobj[n].userID]}
  /\ UNCHANGED <<mtx, nmap, rsPc, rsTodo, rsCur>>
  /\ UNCHANGED <<serverVars, workerVars, schedVars, alertVars, configVars>>

\* ------------------------------------------------------------- Ruler.Stop
\* n.stop() up to its wait: rn.sdCancel(); rn.notifier.Stop()
StopSignalled(n) == [nobj EXCEPT ![n].cancelled = TRUE, ![n].stopped = TRUE]

\* the range over r.notifiers with `todo` left to visit: the next entry (in the
\* map's order, which is any order) is signalled and waited for; after the last
\* one the deferred Unlock runs and Ruler.Stop returns
RulerStopRange(todo) ==
  IF todo = {}
    THEN /\ mtx' = 0
         /\ rsPc' = "done"
         /\ rsTodo' = {}
         /\ UNCHANGED <<nobj, rsCur>>
    ELSE \E n \in todo :
         /\ nobj' = StopSignalled(n)
         /\ rsCur' = n
         /\ rsTodo' = todo
         /\ rsPc' = "wait"
         /\ mtx' = -1

\* Ruler.Stop is called, by the goroutine that shuts the process down and in
\* the order it stops the server and the ruler: r.notifiersMtx.Lock(), and the
\* range begins
RulerStopLock ==
  /\ ~crashed
  /\ rsPc = "idle"
  /\ stopPc = (IF shutdown = "serverFirst" THEN "returned" ELSE "idle")
  /\ mtx = 0
  /\ RulerStopRange({nmap[t] : t \in Tenants} \ {0})
  /\ UNCHANGED <<nmap, sent>>
  /\ UNCHANGED <<serverVars, workerVars, schedVars, alertVars, configVars>>

\* rn.wg.Wait() returns when the wait group's counter is zero; the range goes on
RulerStopWait ==
  /\ ~crashed
  /\ rsPc = "wait"
  /\ nobj[rsCur].wg = 0
  /\ RulerStopRange(rsTodo \ {rsCur})
  /\ UNCHANGED <<nmap, sent>>
  /\ UNCHANGED <<serverVars, workerVars, schedVars, alertVars, configVars>>

\* ------------------------------------------------------------- Server.Stop
\* a Server.Stop that does not wait for w.terminated
StopWaitNoWait ==
  /\ Alive
  /\ stopPc = "wait"
  /\ IF stopIdx < WorkerCount
       THEN /\ stopIdx' = stopIdx + 1
            /\ doneClosed' = doneClosed \cup {stopIdx + 1}
            /\ UNCHANGED stopPc
       ELSE /\ stopPc' = "sched"
            /\ UNCHANGED <<stopIdx, doneClosed>>
  /\ UNCHANGED <<numWorkers, shutdown, srvPc, runIdx>>
  /\ UNCHANGED <<wpc, wterm, witem, wn, outcome, termClosed, crashed, ctxDone>>
  /\ UNCHANGED <<schedVars, rulerVars, alertVars, configVars>>

\* a Server.Stop that returns without stopping the scheduler
StopSchedulerSkipped ==
  /\ Alive
  /\ stopPc = "sched"
  /\ stopPc' = "returned"
  /\ UNCHANGED <<numWorkers, shutdown, srvPc, runIdx, stopIdx>>
  /\ UNCHANGED <<workerVars, schedVars, rulerVars, alertVars, configVars>>

\* Server.Stop is called, by the goroutine that shuts the process down: the
\* first w.Stop() closes w.done
StopInvoke ==
  /\ Alive
  /\ stopPc = "idle"
  /\ rsPc = (IF shutdown = "serverFirst" THEN "idle" ELSE "done")
  /\ stopIdx' = 1
  /\ doneClosed' = doneClosed \cup {1}
  /\ stopPc' = "wait"
  /\ pending' = {i \in ready : i.scheduled <= now}
  /\ UNCHANGED <<numWorkers, shutdown, srvPc, runIdx>>
  /\ UNCHANGED <<wpc, wterm, witem, wn, outcome, termClosed, crashed, ctxDone>>
  /\ UNCHANGED <<catalog, ready, now, schedStop, pollPc, polls, pulls, releases>>
  /\ UNCHANGED <<rulerVars, alertVars, configVars>>

\* <-w.terminated returns once the channel is closed; then the next w.Stop()
\* closes its w.done, or the loop over the workers ends
StopWait ==
  /\ Alive
  /\ stopPc = "wait"
  /\ stopIdx \in termClosed
  /\ IF stopIdx < WorkerCount
       THEN /\ stopIdx' = stopIdx + 1
            /\ doneClosed' = doneClosed \cup {stopIdx + 1}
            /\ UNCHANGED stopPc
       ELSE /\ stopPc' = "sched"
            /\ UNCHANGED <<stopIdx, doneClosed>>
  /\ UNCHANGED <<numWorkers, shutdown, srvPc, runIdx>>
  /\ UNCHANGED <<wpc, wterm, witem, wn, outcome, termClosed, crashed, ctxDone>>
  /\ UNCHANGED <<schedVars, rulerVars, alertVars, configVars>>

\* s.scheduler.Stop(): the queue is closed and the poll loop ends; Server.Stop
\* returns
StopScheduler ==
  /\ Alive
  /\ stopPc = "sched"
  /\ schedStop' = TRUE
  /\ pollPc' = "stopped"
  /\ stopPc' = "returned"
  /\ UNCHANGED <<numWorkers, shutdown, srvPc, runIdx, stopIdx>>
  /\ UNCHANGED <<catalog, ready, now, polls, pulls, releases, pending>>
  /\ UNCHANGED <<workerVars, rulerVars, alertVars, configVars>>

\* ------------------------------------------------------------- the program
Next ==
  \/ NewServer
  \/ SrvRun
  \/ RunSpawn
  \/ \E t \in Tenants : PollAdd(t)
  \/ \E t \in Tenants : PollRemove(t)
  \/ Tick
  \/ \E g \in Slots : WorkerStart(g)
  \/ \E g \in Slots : WorkerCheckDone(g)
  \/ \E g \in Slots : WorkerPull(g)
  \/ \E g \in Slots : NewGroup(g)
  \/ \E g \in Slots : ApplyConfig(g)
  \/ \E g \in Slots : ExpireDeadline(g)
  \/ \E g \in Slots : EvalReturn(g)
  \/ \E g \in Slots : WorkerRelease(g)
  \/ \E n \in Notifiers : NotifierRun(n)
  \/ \E n \in Notifiers : SdExit(n)
  \/ \E n \in Notifiers : DeliveryExit(n)
  \/ \E n \in Notifiers : Deliver(n)
  \/ RulerStopLock
  \/ RulerStopWait
  \/ StopInvoke
  \/ StopWait
  \/ StopScheduler

Spec == Init /\ [][Next]_vars

\* ------------------------------------------------------------- sendAlerts alone
\* the NotifyFunc sendAlerts returns, called with any alert list of the model
AlertInit ==
  /\ ProgramInit("serverFirst")
  /\ RulerConstructed
  /\ alertsIn \in AlertLists
  /\ alertsOut = <<>>
  /\ notifyPc = "idle"

\* the NotifyFunc runs: res is built, and Send is called with it or not
NotifyFunc ==
  /\ notifyPc = "idle"
  /\ alertsOut' = FilterAlerts(alertsIn)
  /\ notifyPc' = IF SendCalled(alertsIn) THEN "sent" ELSE "notSent"
  /\ UNCHANGED <<alertsIn, serverVars, workerVars, schedVars, rulerVars, configVars>>

AlertNext == NotifyFunc

AlertSpec == AlertInit /\ [][AlertNext]_vars

\* ------------------------------------------------------------- NewRuler alone
\* NewRuler is called with any configuration of the model
ConfigInit ==
  /\ ProgramInit("serverFirst")
  /\ amURL \in URLs
  /\ amDiscovery \in BOOLEAN
  /\ notifierCfg = NoConfig
  /\ rulerPc = "new"
  /\ alertsIn = <<>>
  /\ alertsOut = <<>>
  /\ notifyPc = "idle"

ConfigNext == NewRuler

ConfigSpec == ConfigInit /\ [][ConfigNext]_vars

\* ------------------------------------------------------------- the claims
\* the goroutines that hold a work item
Holders == {g \in Slots : witem[g] # NoItem}

\* the goroutines inside Ruler.Evaluate
InFlight == {g \in Slots : Evaluating(g)}

\* the notifiers the map holds
Mapped == {nmap[t] : t \in Tenants} \ {0}

\* C1: for each tenant at most one worker holds a work item of that tenant: an
\* item pulled for a tenant is held by one worker only until it is released.
C1_AtMostOneInFlight ==
  \A g1, g2 \in Holders : witem[g1].userID = witem[g2].userID => g1 = g2

\* C2: for each tenant exactly one rulerNotifier is ever constructed, however
\* many first-use getOrCreateNotifier calls are made for it.
C2_NotifierSingleton ==
  \A t \in Tenants : Cardinality({n \in Notifiers : nobj[n].userID = t}) <= 1

\* C3: a request sent for tenant A's evaluation carries tenant A's identity: the
\* notifier an evaluation resolved is its tenant's, what is queued in a notifier
\* was queued for its tenant, and every request sent carries the tenant it was
\* built for.
C3_TenantIsolation ==
  /\ \A g \in Slots : wpc[g] = "eval" => nobj[wn[g]].userID = witem[g].userID
  /\ \A n \in Notifiers : nobj[n].queue \subseteq {nobj[n].userID}
  /\ \A r \in sent : r.carries = r.for

\* C3 witness: a request for one tenant was sent while another tenant's
\* evaluation was in flight with its own notifier.
C3_Witness ==
  \E r \in sent : \E g \in Slots :
    /\ wpc[g] = "eval"
    /\ witem[g].userID # r.for
    /\ nobj[wn[g]].userID = witem[g].userID

\* C4: the evaluations in flight never outnumber the configured workers (none
\* is in flight when the configured count made NewServer fail).
C4_BoundedConcurrency ==
  Cardinality(InFlight) <= (IF numWorkers <= 0 THEN 0 ELSE numWorkers)

\* C4 witness: every worker of the pool is evaluating and an item is still due
\* in the queue.
C4_Witness ==
  /\ numWorkers >= 1
  /\ Cardinality(InFlight) = numWorkers
  /\ \E i \in ready : i.scheduled <= now

\* C5: once the pool's stop is through (every w.Stop() returned), every
\* worker loop has terminated, no evaluation is in flight, no worker holds an
\* item and every item pulled was handed back.
C5_PoolStopWaits ==
  stopPc \in {"sched", "returned"} =>
    /\ \A g \in 1..numWorkers : wpc[g] = "terminated"
    /\ InFlight = {}
    /\ Holders = {}
    /\ pulls = releases

\* C5 witness: the stop of a pool of two is through, after items were
\* evaluated and handed back.
C5_Witness ==
  /\ stopPc = "sched"
  /\ numWorkers >= 2
  /\ releases >= 1

\* a step of the program that needs no new tenant, no passing of time and no
\* call from outside
ProgramStep ==
  \/ SrvRun
  \/ RunSpawn
  \/ \E g \in Slots :
       \/ WorkerStart(g) \/ WorkerCheckDone(g) \/ WorkerPull(g) \/ NewGroup(g)
       \/ ApplyConfig(g) \/ ExpireDeadline(g) \/ EvalReturn(g) \/ WorkerRelease(g)
  \/ StopWait
  \/ StopScheduler

\* C6: Server.Stop, called in any state, returns: while it waits with no
\* tenant and no item known to the scheduler, and no evaluation in flight, the
\* program can still take a step towards its return.
C6_StopTerminates ==
  (stopPc = "wait" /\ ~crashed /\ catalog = {} /\ ready = {} /\ InFlight = {})
    => ENABLED ProgramStep

\* C7 (as claimed): when Server.Stop has returned, the workers have
\* terminated, the poll loop is stopped and every notifier of the map is
\* stopped, its goroutines gone.
C7_ServerStopStopsPipelines ==
  stopPc = "returned" =>
    /\ \A g \in 1..numWorkers : wpc[g] = "terminated"
    /\ schedStop /\ pollPc = "stopped"
    /\ \A n \in Mapped :
         /\ nobj[n].cancelled /\ nobj[n].stopped
         /\ nobj[n].sd # "running" /\ nobj[n].dl # "running"

\* C7 (amended): when Server.Stop has returned, the workers have terminated
\* and the poll loop is stopped; the notifiers are left as they were, none
\* cancelled or stopped until Ruler.Stop is called.
C7_ServerStopStopsWorkersAndScheduler ==
  stopPc = "returned" =>
    /\ \A g \in 1..numWorkers : wpc[g] = "terminated"
    /\ schedStop /\ pollPc = "stopped"
    /\ rsPc = "idle" => \A n \in Notifiers : ~nobj[n].cancelled /\ ~nobj[n].stopped

\* C7 witness: Server.Stop has returned and a tenant's pipeline is running.
C7_Witness ==
  /\ stopPc = "returned"
  /\ \E n \in Mapped : nobj[n].dl = "running" /\ nobj[n].sd = "running"

\* C8 (as claimed): when the workers have terminated, every item that was due
\* when Server.Stop was called has been pulled.
C8_ShutdownDrains ==
  stopPc \in {"sched", "returned"} => pending = {}

\* C8 (amended): an item that was due when Server.Stop was called and has
\* not been pulled since is not dropped: it is still in the queue, also when
\* the workers have terminated.
C8_DueItemsStayQueued ==
  stopPc # "idle" => pending \subseteq ready

\* C8 witness: Server.Stop has returned and an item due when it was called
\* is still in the queue, never pulled.
C8_Witness ==
  /\ stopPc = "returned"
  /\ pending # {}
  /\ pending \subseteq ready

\* C9: a worker lets go of an item only by workItemDone, called once, after
\* Evaluate returned, whatever the outcome (success, no rule group, deadline);
\* the item of a tenant still in the catalog is back in the queue for its next
\* cycle; a goroutine that holds an item is between its pull and its release.
C9_FailedCycleStillReleases ==
  /\ [](\A g \in Holders : wpc[g] \in {"newGroup", "applyConfig", "eval", "release"})
  /\ [][\A g \in Slots :
          (witem[g] # NoItem /\ witem'[g] # witem[g]) =>
            /\ wpc[g] = "release"
            /\ outcome[g] \in {"ok", "groupErr", "timeout"}
            /\ releases' = releases + 1
            /\ witem[g].userID \in catalog => Defer(witem[g]) \in ready']_vars

\* C9 witness: a cycle failed at applyConfig (a notifier was constructed and
\* not stored), every item pulled was handed back, and the tenant's next item
\* is in the queue.
C9_Witness ==
  /\ \E n \in Notifiers : nmap[nobj[n].userID] # n /\ mtx = 0
       /\ \E i \in ready : i.userID = nobj[n].userID /\ i.scheduled > 0
  /\ pulls = releases
  /\ pulls = 1

C11_NoSendWhenNothingQualifies ==
  (notifyPc # "idle" /\ \A k \in 1..Len(alertsIn) : alertsIn[k].State = "pending")
    => notifyPc = "notSent"

\* a host name of the form _portname._tcp.service.fqdn: a first label that is an
\* underscore and a port name, the label _tcp, and a service name after it
IsSrvForm(host) ==
  \E i \in 3..Len(host) :
    /\ host[1] = "_"
    /\ \A k \in 2..(i - 1) : host[k] \notin {".", "_"}
    /\ host[i] = "."
    /\ Len(host) >= i + 6
    /\ SubSeq(host, i + 1, i + 5) = TcpSegment
    /\ host[i + 6] # "."

\* C12: with DNS discovery on, NewRuler fails (and returns no Ruler, no
\* configuration) exactly for the hosts that are not of the form
\* _portname._tcp.service.fqdn.
C12_DiscoveryHostValidation ==
  (rulerPc # "new" /\ amURL.set /\ amDiscovery) =>
    /\ rulerPc = "error" <=> ~IsSrvForm(amURL.Host)
    /\ rulerPc = "error" => notifierCfg = NoConfig

\* C13: a server constructed with a worker count below 1 does not exist:
\* NewServer returned an error, the poll loop was never started and no worker
\* goroutine was ever spawned, and nothing of the server can take a step.
C13_WorkerCountValidation ==
  (numWorkers < 1 /\ srvPc # "new") =>
    /\ srvPc = "none"
    /\ pollPc = "notStarted"
    /\ runIdx = 0
    /\ \A g \in Slots : wpc[g] = "absent"
    /\ ~ENABLED (SrvRun \/ RunSpawn \/ \E t \in Tenants : PollAdd(t))

\* C13 witness: NewServer was called with a worker count of zero or less and
\* returned no server.
C13_Witness ==
  /\ numWorkers < 1
  /\ srvPc = "none"
  /\ pollPc = "notStarted"

\* C14: the item a worker hands back is the item it pulled, its scheduled time
\* untouched, and the tenant's next item is scheduled exactly one evaluation
\* interval after that time, whatever the clock shows at the hand-back; cycle
\* after cycle the scheduled time advances by the interval.
C14_FixedCadence ==
  /\ [][\A g \in Slots :
          (witem[g] # NoItem /\ wpc'[g] # "loop") => witem'[g] = witem[g]]_vars
  /\ [][\A g \in Slots :
          (wpc[g] = "release" /\ wpc'[g] = "loop" /\ witem[g].userID \in catalog) =>
            /\ [userID |-> witem[g].userID,
                scheduled |-> witem[g].scheduled + EvaluationInterval] \in ready'
            /\ \A i \in ready' \ ready :
                 i.scheduled = witem[g].scheduled + EvaluationInterval]_vars

\* C14 witness: the only tenant ever polled, whose first item was scheduled at
\* time 0, went through two cycles of pull and release: its next item is
\* scheduled at 0 + 2 * interval.
C14_Witness ==
  /\ polls = 1
  /\ releases = 2
  /\ \E i \in ready : i.scheduled = 0 + 2 * EvaluationInterval

\* C15: when Ruler.Stop has returned, the pipeline of every notifier of the map
\* was started and both its goroutines (discovery manager, delivery loop) have
\* exited, none is running and none is still to be started.
C15_StopJoinsPipelines ==
  rsPc = "done" =>
    \A n \in Mapped :
      /\ nobj[n].run = "started"
      /\ nobj[n].sd = "exited"
      /\ nobj[n].dl = "exited"

\* the notifiersMtx is held across an operation that blocks: a worker applies
\* the configuration inside getOrCreateNotifier, or Ruler.Stop waits for the
\* goroutines of a notifier
MutexHeldWhileBlocking ==
  \/ \E g \in Slots : mtx = g /\ wpc[g] = "applyConfig"
  \/ mtx = -1 /\ rsPc = "wait"

\* C16: the notifiersMtx is held for the map check and insert only, never
\* while its holder applies a configuration or waits for goroutines; a
\* getOrCreateNotifier call never waits behind such an operation.
C16_ShortCriticalSection ==
  /\ ~MutexHeldWhileBlocking
  /\ \A g \in Slots : wpc[g] = "newGroup" => mtx = 0

\* C17: the deadline of one evaluation cancels the scope of that evaluation
\* only: in the step in which the scope of an evaluation becomes done, the scope
\* of every other evaluation in flight is as it was; and an evaluation returns
\* as timed out only if its own scope is done.
C17_IndependentDeadlines ==
  /\ [][\A g, h \in Slots :
          (g # h /\ Evaluating(g) /\ Evaluating(h) /\ ~Cancelled(g) /\ Cancelled(g)')
            => (Cancelled(h)' <=> Cancelled(h))]_vars
  /\ [][\A g \in Slots :
          (wpc[g] = "eval" /\ wpc'[g] = "release" /\ ~Cancelled(g))
            => outcome'[g] = "ok"]_vars

\* C17 witness: the deadline of one evaluation passed and it returned as timed
\* out, while another evaluation, in flight all along, still runs with its
\* scope not cancelled.
C17_Witness ==
  \E g, h \in Slots :
    /\ wpc[g] = "release" /\ outcome[g] = "timeout"
    /\ wpc[h] = "eval" /\ ~Cancelled(h)
    /\ pulls = 2 /\ releases = 0

\* C18: a worker whose stop was signalled (its done channel is closed) does
\* not start the evaluation of an item: no step takes it from nextWorkItem into
\* Evaluate.
C18_StopAfterCurrentItem ==
  [][\A g \in Slots :
       (wpc[g] = "pull" /\ wpc'[g] = "newGroup") => g \notin doneClosed]_vars

\* C19: an entry of the notifier map is never removed or replaced, by an
\* evaluation or by Ruler.Stop, and an evaluation that got a notifier for a
\* tenant that has an entry got that entry.
C19_EntriesStable ==
  /\ [][\A t \in Tenants : nmap[t] # 0 => nmap'[t] = nmap[t]]_vars
  /\ [](\A g \in Slots :
          (wpc[g] = "eval" /\ nmap[witem[g].userID] # 0) => wn[g] = nmap[witem[g].userID])

\* C19 witness: Ruler.Stop has returned and stopped the notifier of a tenant
\* for which two evaluations ran; the entry is in the map still.
C19_Witness ==
  /\ rsPc = "done"
  /\ pulls = 2
  /\ polls = 1
  /\ \E t \in Tenants : nmap[t] # 0 /\ nobj[nmap[t]].stopped

\* the notifiers whose getOrCreateNotifier call has not returned yet
UnderConstruction == {wn[g] : g \in {h \in Slots : wpc[h] = "applyConfig"}}

\* C20: every notifier whose pipeline goroutines were started, and whose
\* getOrCreateNotifier call has returned, is an entry of the notifier map: none
\* runs outside the map, and no tenant has more than one started.
C20_NoUnownedPipeline ==
  /\ \A n \in Notifiers \ UnderConstruction : nobj[n].run = "started" => n \in Mapped
  /\ \A t \in Tenants :
       Cardinality({n \in Notifiers : nobj[n].userID = t /\ nobj[n].run = "started"}) <= 1

====
